---- MODULE Spec2Model ----
(***************************************************************************)
(* Human Resource Machine interpreter.  Spec is the interpreter            *)
(* (src/src/interpreter.rs) driven as src/src/main.rs drives it:           *)
(* SimpleInterpreter::new, an optional set_inbox, then one eval whose      *)
(* dispatch loop runs one instruction per step.  SpecInbox is set_inbox on *)
(* its own, SpecLex is Lexer::lex (src/src/lexer.rs) on script texts,      *)
(* SpecRerun calls eval twice on one interpreter, SpecRange runs programs  *)
(* whose cell index is past the last cell and SpecOverflow programs that   *)
(* take hand and cell to the ends of the i16 range.                        *)
(***************************************************************************)
EXTENDS Integers, Sequences, FiniteSets, TLC

VARIABLES hand, program_cursor, cells, program, inbox, jump_table,
          step_counter, output, status, result, input, script, evals,
          dispatched, taken

vars == <<hand, program_cursor, cells, program, inbox, jump_table,
          step_counter, output, status, result, input, script, evals,
          dispatched, taken>>

(* ------------------------------ bounds -------------------------------- *)

\* longest program body handed to eval after a prologue
MaxBodyLen == 2
\* longest input text handed to set_inbox on its own
MaxTextLen == 4
\* cap on step_counter, which the code lets grow without limit
MaxSteps == 24
\* most pieces a script handed to Lexer::lex is written with
MaxPieces == 4
\* most calls of eval on one interpreter
MaxEvals == 2
\* longest body, after a prologue, of the programs run on a shared interpreter
MaxRerunBody == 1
\* longest tail of a program that has taken hand and cell to the end of the
\* i16 range
MaxTailLen == 3

(* ------------------------- program constants -------------------------- *)

NumCells == 6
U8Max == 255
I16Min == -32768
I16Max == 32767
ByteZero == 48
ByteNine == 57
ByteMinus == 45

\* Option<T>: None, Some(v)
None == <<>>
Some(v) == <<v>>

(* ------------------------------ lexer --------------------------------- *)

NoArgKinds == {"InBox", "OutBox"}
CellKinds == {"CopyFrom", "CopyTo", "Add", "Sub", "BumpPlus", "BumpMinus"}
JumpKinds == {"Jump", "JumpIfZero", "JumpIfNeg"}
LabelKinds == JumpKinds \cup {"JumpTarget"}

\* length of the opcode word of each TokenKind
OpcodeLen(kind) ==
    CASE kind = "InBox" -> 5
      [] kind = "OutBox" -> 6
      [] kind = "CopyFrom" -> 8
      [] kind = "CopyTo" -> 6
      [] kind = "Add" -> 3
      [] kind = "Sub" -> 3
      [] kind = "BumpPlus" -> 9
      [] kind = "BumpMinus" -> 10
      [] kind = "Jump" -> 4
      [] kind = "JumpIfZero" -> 12
      [] kind = "JumpIfNeg" -> 11
      [] kind = "JumpTarget" -> 11

Location(line, col) == [line |-> line, col |-> col]

\* The Token that Lexer::lex builds for the instruction written alone on
\* source line `line`, opcode at column 1 and one space before its argument:
\* the location is the opcode chunk's for inbox/outbox and the argument
\* chunk's otherwise.
Token(kind, arg, line) ==
    [kind |-> kind, arg |-> arg,
     location |-> Location(line, IF kind \in NoArgKinds THEN 1
                                 ELSE OpcodeLen(kind) + 2)]

\* Program for a sequence of <<kind, arg>> pairs, one instruction per line
MkProgram(ks) == [i \in 1..Len(ks) |-> Token(ks[i][1], ks[i][2], i)]

(* Lexer::lex.  A text is a sequence of chars, each named by a string;
   "U+00E9" names the char e-acute, whose UTF-8 encoding takes two bytes. *)

\* c.len_utf8()
Width(c) == IF c = "U+00E9" THEN 2 ELSE 1

\* char::is_ascii_whitespace
IsAsciiWhitespace(c) == c \in {" ", "\t", "\n", "\f", "\r"}

\* index (from 1) of the char that starts at byte offset b, Len(text) + 1
\* when b is the length of the text in bytes, and 0 when b lies inside a
\* char or past the end: a walk over the chars from the k-th, which starts
\* at offset `off`
RECURSIVE CharAt(_, _, _, _)
CharAt(text, k, off, b) ==
    IF off = b THEN k
    ELSE IF off > b \/ k > Len(text) THEN 0
    ELSE CharAt(text, k + 1, off + Width(text[k]), b)

\* str::is_char_boundary
IsCharBoundary(text, b) == CharAt(text, 1, 0, b) # 0

\* &input[start..end] with byte offsets: the chars that lie in the range,
\* or None for the panic on an offset that is not a char boundary
Slice(text, start, end) ==
    IF IsCharBoundary(text, start) /\ IsCharBoundary(text, end)
    THEN Some(SubSeq(text, CharAt(text, 1, 0, start), CharAt(text, 1, 0, end) - 1))
    ELSE None

Annotation(value, location) == [value |-> value, location |-> location]

\* mutant: the separator is not counted
NextCol_NoSeparator(col, start, end) == col + (end - start)

\* `col += end - start + 1`
NextCol(col, start, end) == col + (end - start) + 1

\* the first loop of lex, `for c in input.chars()`, from the char at index
\* `end` on (0-based: `end` counts the chars seen and is used as a byte
\* offset), followed by the push of the last chunk.  The result is
\* Some(chunks), or None when a slice panicked.
RECURSIVE ChunkLoop(_, _, _, _, _, _)
ChunkLoop(text, line, col, start, end, chunks) ==
    IF end >= Len(text)
    THEN IF start < end
         THEN LET v == Slice(text, start, end) IN
              IF v = None THEN None
              ELSE Some(Append(chunks, Annotation(v[1], Location(line, col))))
         ELSE Some(chunks)
    ELSE LET c == text[end + 1] IN
         IF IsAsciiWhitespace(c)
         THEN LET v == IF start < end THEN Slice(text, start, end) ELSE Some(<<>>) IN
              IF v = None THEN None
              ELSE ChunkLoop(text,
                             IF c = "\n" THEN line + 1 ELSE line,
                             IF c = "\n" THEN 1 ELSE NextCol(col, start, end),
                             end + 1, end + 1,
                             IF start < end
                             THEN Append(chunks, Annotation(v[1], Location(line, col)))
                             ELSE chunks)
         ELSE ChunkLoop(text, line, col, start, end + 1, chunks)

\* the word of each arm of the match on chunks[i].value
OpcodeWord(kind) ==
    CASE kind = "InBox" -> <<"i", "n", "b", "o", "x">>
      [] kind = "OutBox" -> <<"o", "u", "t", "b", "o", "x">>
      [] kind = "CopyFrom" -> <<"c", "o", "p", "y", "f", "r", "o", "m">>
      [] kind = "CopyTo" -> <<"c", "o", "p", "y", "t", "o">>
      [] kind = "Add" -> <<"a", "d", "d">>
      [] kind = "Sub" -> <<"s", "u", "b">>
      [] kind = "BumpPlus" -> <<"b", "u", "m", "p", "_", "p", "l", "u", "s">>
      [] kind = "BumpMinus" -> <<"b", "u", "m", "p", "_", "m", "i", "n", "u", "s">>
      [] kind = "Jump" -> <<"j", "u", "m", "p">>
      [] kind = "JumpIfZero" -> <<"j", "u", "m", "p", "_", "i", "f", "_", "z", "e", "r", "o">>
      [] kind = "JumpIfNeg" -> <<"j", "u", "m", "p", "_", "i", "f", "_", "n", "e", "g">>
      [] kind = "JumpTarget" -> <<"j", "u", "m", "p", "_", "t", "a", "r", "g", "e", "t">>

\* the arm a chunk value selects: Some(kind), or None for the default arm
KindOf(value) ==
    IF \E kind \in NoArgKinds \cup CellKinds \cup LabelKinds : OpcodeWord(kind) = value
    THEN Some(CHOOSE kind \in NoArgKinds \cup CellKinds \cup LabelKinds :
                  OpcodeWord(kind) = value)
    ELSE None

DigitChars == {"0", "1", "2", "3", "4", "5", "6", "7", "8", "9"}

DigitValue(c) ==
    CASE c = "0" -> 0 [] c = "1" -> 1 [] c = "2" -> 2 [] c = "3" -> 3
      [] c = "4" -> 4 [] c = "5" -> 5 [] c = "6" -> 6 [] c = "7" -> 7
      [] c = "8" -> 8 [] c = "9" -> 9

RECURSIVE DigitsValue(_)
DigitsValue(digits) ==
    IF digits = <<>> THEN 0
    ELSE DigitsValue(SubSeq(digits, 1, Len(digits) - 1)) * 10
         + DigitValue(digits[Len(digits)])

\* value.parse::<usize>(): an optional '+' and one digit or more (the
\* failure on a value above usize::MAX needs twenty digits)
ParseUsize(value) ==
    LET digits == IF value # <<>> /\ value[1] = "+" THEN Tail(value) ELSE value IN
    IF digits # <<>> /\ \A j \in 1..Len(digits) : digits[j] \in DigitChars
    THEN Some(DigitsValue(digits))
    ELSE None

\* value.parse::<String>() never fails
ParseString(value) == Some(value)

\* require_arg!(chunks, usize | String, index), index 0-based
require_arg(chunks, kind, index) ==
    IF index < Len(chunks)
    THEN IF kind \in CellKinds THEN ParseUsize(chunks[index + 1].value)
         ELSE ParseString(chunks[index + 1].value)
    ELSE None

\* mutant: the chunk after the opcode is dropped with it
NoCommand_Two(i) == i + 2

\* the else branch of `if let Some(command) = command`: i += 1
NoCommand(i) == i + 1

\* one turn of `while i < chunks.len()`: the command pushed, if any, and i
\* after the turn.  The default arm adds 1 to i and yields None, and the
\* else branch then adds 1 again.
ScanStep(chunks, i) ==
    LET kind == KindOf(chunks[i + 1].value) IN
    IF kind = None
    THEN [command |-> None, i |-> NoCommand(i + 1)]
    ELSE IF kind[1] \in NoArgKinds
    THEN [command |-> Some([kind |-> kind[1], arg |-> 0,
                            location |-> chunks[i + 1].location]),
          i |-> i + 1]
    ELSE LET arg == require_arg(chunks, kind[1], i + 1) IN
         IF arg = None
         THEN [command |-> None, i |-> NoCommand(i)]
         ELSE [command |-> Some([kind |-> kind[1], arg |-> arg[1],
                                 location |-> chunks[i + 2].location]),
               i |-> i + 2]

RECURSIVE ScanLoop(_, _, _)
ScanLoop(chunks, i, tokens) ==
    IF i >= Len(chunks) THEN tokens
    ELSE LET step == ScanStep(chunks, i) IN
         ScanLoop(chunks, step.i,
                  IF step.command = None THEN tokens
                  ELSE Append(tokens, step.command[1]))

\* the chunks of a text: Some(chunks), or None when lex panicked
Chunks(text) == ChunkLoop(text, 1, 1, 0, 0, <<>>)

\* Lexer::lex(text): Some(program), or None when it panicked
Lex(text) ==
    LET chunks == Chunks(text) IN
    IF chunks = None THEN None ELSE Some(ScanLoop(chunks[1], 0, <<>>))

(* --------------------------- set_inbox -------------------------------- *)

IsDigit(c) == ByteZero <= c /\ c <= ByteNine

\* u8 arithmetic of `*v *= 10; *v += c - b'0'`: with overflow checks the
\* step panics on a result above u8::MAX, without them it wraps.
U8Acc(v, c, checked) ==
    LET m == v * 10
        s == (IF checked THEN m ELSE m % (U8Max + 1)) + (c - ByteZero)
    IN IF checked /\ (m > U8Max \/ s > U8Max) THEN None
       ELSE Some(s % (U8Max + 1))

\* the value pushed for a finished run v: `-1 * v as i16` or `v as i16`
Pushed(v, minus_flag) == IF minus_flag THEN (-1) * v ELSE v

\* minus_flag after a non-digit byte c
MinusAfter(minus_flag, c) == IF c = ByteMinus THEN TRUE ELSE minus_flag

\* the loop `for c in inbox.bytes()` from byte i on; n is Option<u8>.
\* The result is Some(stream), or None when the loop panicked.
RECURSIVE SetInboxLoop(_, _, _, _, _, _)
SetInboxLoop(bytes, i, n, minus_flag, stream, checked) ==
    IF i > Len(bytes) THEN Some(stream)
    ELSE LET c == bytes[i] IN
         IF IsDigit(c)
         THEN IF n = None
              THEN SetInboxLoop(bytes, i + 1, Some(c - ByteZero), minus_flag,
                                stream, checked)
              ELSE LET a == U8Acc(n[1], c, checked) IN
                   IF a = None THEN None
                   ELSE SetInboxLoop(bytes, i + 1, a, minus_flag, stream,
                                     checked)
         ELSE SetInboxLoop(bytes, i + 1, None, MinusAfter(minus_flag, c),
                           IF n = None THEN stream
                           ELSE Append(stream, Pushed(n[1], minus_flag)),
                           checked)

SetInboxResult(bytes, checked) ==
    SetInboxLoop(bytes, 1, None, FALSE, <<>>, checked)

(* --------------------------- interpreter ------------------------------ *)

Ok == [tag |-> "Ok", kind |-> "", location |-> Location(0, 0)]
Err(kind, location) == [tag |-> "Err", kind |-> kind, location |-> location]

\* SimpleInterpreter::new
Init ==
    /\ hand = None
    /\ program_cursor = 0
    /\ cells = <<>>
    /\ program = <<>>
    /\ inbox = None
    /\ jump_table = <<>>
    /\ step_counter = 0
    /\ output = <<>>
    /\ status = "new"
    /\ result = None
    /\ input = None
    /\ script = None
    /\ evals = 0
    /\ dispatched = 0
    /\ taken = <<>>

\* a panic aborts the process where it stands
Panic ==
    /\ status' = "panic"
    /\ UNCHANGED <<hand, program_cursor, cells, program, inbox, jump_table,
                   step_counter, output, result, taken>>

\* set_inbox(text), called by main at most once and before eval
set_inbox(bytes) ==
    /\ status = "new"
    /\ inbox = None
    /\ input' = Some(bytes)
    /\ UNCHANGED <<script, evals, dispatched>>
    /\ \E checked \in BOOLEAN :
         LET r == SetInboxResult(bytes, checked) IN
         IF r = None THEN Panic
         ELSE /\ inbox' = Some(r[1])
              /\ UNCHANGED <<hand, program_cursor, cells, program, jump_table,
                             step_counter, output, status, result, taken>>

\* main calls Lexer::lex on the script it has read, before it builds the
\* interpreter
lex ==
    /\ status = "start"
    /\ LET lexed == Lex(script[1]) IN
       IF lexed = None THEN Panic
       ELSE /\ program' = lexed[1]
            /\ status' = "new"
            /\ UNCHANGED <<hand, program_cursor, cells, inbox, jump_table,
                           step_counter, output, result, taken>>
    /\ UNCHANGED <<input, script, evals, dispatched>>

(* init: the two passes over the program; indices are 0-based as in the code *)

\* mutant: only Jump is taken for a jump-family instruction
JumpIndices_OnlyJump(p) == {i \in 0..(Len(p) - 1) : p[i + 1].kind = "Jump"}

JumpIndices(p) == {i \in 0..(Len(p) - 1) : p[i + 1].kind \in JumpKinds}

TargetIndices(p, label) ==
    {i \in 0..(Len(p) - 1) : p[i + 1].kind = "JumpTarget" /\ p[i + 1].arg = label}

\* jump_targets.insert(label, i) for i ascending: the last insert stays
TargetOf(p, label) ==
    CHOOSE i \in TargetIndices(p, label) : \A j \in TargetIndices(p, label) : j <= i

\* jump indices whose label is (not) a key of jump_targets
Resolved(p) == {i \in JumpIndices(p) : TargetIndices(p, p[i + 1].arg) # {}}
Unresolved(p) == JumpIndices(p) \ Resolved(p)

\* self.jump_table.insert(index, target) for every index of S
Inserted(table, p, S) ==
    [i \in (DOMAIN table) \cup S |->
        IF i \in S THEN TargetOf(p, p[i + 1].arg) ELSE table[i]]

EmptyCells == [i \in 1..NumCells |-> None]

\* eval up to the dispatch loop: the program is cloned and init runs.  init
\* resets the cells only: hand, program_cursor, step_counter and the entries
\* already in self.jump_table stay as they are.  The second loop of init
\* walks a HashMap, so on failure the entry it stops at is any unresolved
\* one and the entries inserted before it are any subset of the resolved
\* ones.
eval_entry(p) ==
    /\ program' = p
    /\ cells' = EmptyCells
    /\ IF Unresolved(p) = {}
       THEN /\ jump_table' = Inserted(jump_table, p, JumpIndices(p))
            /\ status' = "running"
            /\ result' = None
       ELSE \E m \in Unresolved(p), S \in SUBSET Resolved(p) :
            /\ jump_table' = Inserted(jump_table, p, S)
            /\ status' = "done"
            /\ result' = Some(Err("UnexistedJumpTarget", p[m + 1].location))
    /\ evals' = evals + 1
    /\ dispatched' = 0
    /\ UNCHANGED <<hand, program_cursor, inbox, step_counter, output, input,
                   script, taken>>

\* the eval that main calls on the interpreter it has just built
eval_init(p) ==
    /\ status = "new"
    /\ eval_entry(p)

\* eval called again on an interpreter whose earlier eval has returned
eval_again(p) ==
    /\ status = "done"
    /\ evals < MaxEvals
    /\ eval_entry(p)

(* the dispatch loop of eval *)

Command == program[program_cursor + 1]

Dispatching(kind) ==
    /\ status = "running"
    /\ program_cursor < Len(program)
    /\ step_counter < MaxSteps
    /\ Command.kind = kind

\* mutant: both inbox errors end the run with success
Returned_AnyInboxError(kind, location) ==
    IF kind \in {"EmptyInBox", "UndefinedInputBox"} THEN Ok
    ELSE Err(kind, location)

\* what eval returns for the error a step raised
Returned(kind, location) ==
    IF kind = "EmptyInBox" THEN Ok ELSE Err(kind, location)

\* a step returned Err: eval returns at once
Raise(kind) ==
    /\ status' = "done"
    /\ result' = Some(Returned(kind, Command.location))
    /\ dispatched' = dispatched + 1
    /\ UNCHANGED <<hand, program_cursor, cells, program, inbox, jump_table,
                   step_counter, output, input, script, evals, taken>>

\* program_cursor += 1; step_counter += 1; Ok(())
Advance ==
    /\ program_cursor' = program_cursor + 1
    /\ step_counter' = step_counter + 1
    /\ dispatched' = dispatched + 1
    /\ UNCHANGED <<program, jump_table, status, result, input, script,
                   evals>>

\* i16 result of an addition or subtraction: in range as is; out of range a
\* panic (None) with overflow checks and the wrapped value without
I16(x, checked) ==
    IF I16Min <= x /\ x <= I16Max THEN Some(x)
    ELSE IF checked THEN None
    ELSE Some(((x - I16Min) % (I16Max - I16Min + 1)) + I16Min)

\* mutant: pop_back in place of pop_front
PopFront_Back(q) == <<q[Len(q)], SubSeq(q, 1, Len(q) - 1)>>

\* input.pop_front(): the value popped and the queue left
PopFront(q) == <<Head(q), Tail(q)>>

eval_inbox ==
    /\ Dispatching("InBox")
    /\ IF inbox = None THEN Raise("UndefinedInputBox")
       ELSE IF Len(inbox[1]) > 0
       THEN /\ hand' = Some(PopFront(inbox[1])[1])
            /\ inbox' = Some(PopFront(inbox[1])[2])
            /\ taken' = Append(taken, PopFront(inbox[1])[1])
            /\ Advance
            /\ UNCHANGED <<cells, output>>
       ELSE Raise("EmptyInBox")

\* mutant: the value stays in hand after it is printed
eval_outbox_KeepsHand ==
    /\ Dispatching("OutBox")
    /\ IF hand # None
       THEN /\ output' = Append(output, hand[1])
            /\ Advance
            /\ UNCHANGED <<hand, cells, inbox, taken>>
       ELSE Raise("EmptyHandValue")

eval_outbox ==
    /\ Dispatching("OutBox")
    /\ IF hand # None
       THEN /\ output' = Append(output, hand[1])
            /\ hand' = None
            /\ Advance
            /\ UNCHANGED <<cells, inbox, taken>>
       ELSE Raise("EmptyHandValue")

\* self.cells[index]: indexing past the end panics
InRange(index) == index < Len(cells)
Cell(index) == cells[index + 1]

\* mutant: the value is moved out of the cell, not copied
eval_copy_from_Takes ==
    /\ Dispatching("CopyFrom")
    /\ LET index == Command.arg IN
       IF ~InRange(index) THEN Panic /\ UNCHANGED <<input, script, evals, dispatched>>
       ELSE IF Cell(index) # None
       THEN /\ hand' = Cell(index)
            /\ cells' = [cells EXCEPT ![index + 1] = None]
            /\ Advance
            /\ UNCHANGED <<inbox, output, taken>>
       ELSE Raise("EmptyFloorValue")

eval_copy_from ==
    /\ Dispatching("CopyFrom")
    /\ LET index == Command.arg IN
       IF ~InRange(index) THEN Panic /\ UNCHANGED <<input, script, evals, dispatched>>
       ELSE IF Cell(index) # None
       THEN /\ hand' = Cell(index)
            /\ Advance
            /\ UNCHANGED <<cells, inbox, output, taken>>
       ELSE Raise("EmptyFloorValue")

eval_copy_to ==
    /\ Dispatching("CopyTo")
    /\ LET index == Command.arg IN
       IF hand # None
       THEN IF ~InRange(index) THEN Panic /\ UNCHANGED <<input, script, evals, dispatched>>
            ELSE /\ cells' = [cells EXCEPT ![index + 1] = Some(hand[1])]
                 /\ Advance
                 /\ UNCHANGED <<hand, inbox, output, taken>>
       ELSE Raise("EmptyHandValue")

\* mutant: the hand is looked at before the cell
Arith_HandFirst(index, sign) ==
    IF ~InRange(index) THEN Panic /\ UNCHANGED <<input, script, evals, dispatched>>
    ELSE IF hand # None
    THEN IF Cell(index) # None
         THEN \E checked \in BOOLEAN :
              LET r == I16(hand[1] + sign * Cell(index)[1], checked) IN
              IF r = None THEN Panic /\ UNCHANGED <<input, script, evals, dispatched>>
              ELSE /\ hand' = r
                   /\ Advance
                   /\ UNCHANGED <<cells, inbox, output, taken>>
         ELSE Raise("EmptyFloorValue")
    ELSE Raise("EmptyHandValue")

\* eval_add and eval_sub differ in the operator only
Arith(index, sign) ==
    IF ~InRange(index) THEN Panic /\ UNCHANGED <<input, script, evals, dispatched>>
    ELSE IF Cell(index) # None
    THEN IF hand # None
         THEN \E checked \in BOOLEAN :
              LET r == I16(hand[1] + sign * Cell(index)[1], checked) IN
              IF r = None THEN Panic /\ UNCHANGED <<input, script, evals, dispatched>>
              ELSE /\ hand' = r
                   /\ Advance
                   /\ UNCHANGED <<cells, inbox, output, taken>>
         ELSE Raise("EmptyHandValue")
    ELSE Raise("EmptyFloorValue")

eval_add == Dispatching("Add") /\ Arith(Command.arg, 1)

eval_sub == Dispatching("Sub") /\ Arith(Command.arg, -1)

\* mutant: the cell is bumped and the hand is left as it was
eval_bump_KeepsHand(index, delta) ==
    IF ~InRange(index) THEN Panic /\ UNCHANGED <<input, script, evals, dispatched>>
    ELSE IF Cell(index) # None
    THEN \E checked \in BOOLEAN :
         LET r == I16(Cell(index)[1] + delta, checked) IN
         IF r = None THEN Panic /\ UNCHANGED <<input, script, evals, dispatched>>
         ELSE /\ cells' = [cells EXCEPT ![index + 1] = r]
              /\ Advance
              /\ UNCHANGED <<hand, inbox, output, taken>>
    ELSE Raise("EmptyFloorValue")

eval_bump(index, delta) ==
    IF ~InRange(index) THEN Panic /\ UNCHANGED <<input, script, evals, dispatched>>
    ELSE IF Cell(index) # None
    THEN \E checked \in BOOLEAN :
         LET r == I16(Cell(index)[1] + delta, checked) IN
         IF r = None THEN Panic /\ UNCHANGED <<input, script, evals, dispatched>>
         ELSE /\ cells' = [cells EXCEPT ![index + 1] = r]
              /\ hand' = r
              /\ Advance
              /\ UNCHANGED <<inbox, output, taken>>
    ELSE Raise("EmptyFloorValue")

eval_bump_plus == Dispatching("BumpPlus") /\ eval_bump(Command.arg, 1)

eval_bump_minus == Dispatching("BumpMinus") /\ eval_bump(Command.arg, -1)

\* the taken branch of the three jumps: jump_table.get(&label), where the
\* label passed by eval is program_cursor
JumpTo(label) ==
    IF label \in DOMAIN jump_table
    THEN /\ program_cursor' = jump_table[label]
         /\ step_counter' = step_counter + 1
         /\ dispatched' = dispatched + 1
         /\ UNCHANGED <<hand, cells, program, inbox, jump_table, output,
                        status, result, input, script, evals, taken>>
    ELSE Raise("UnexistedJumpTarget")

\* mutant: a jump not taken leaves the cursor where it is
FallThrough_Stays ==
    /\ step_counter' = step_counter + 1
    /\ dispatched' = dispatched + 1
    /\ UNCHANGED <<hand, program_cursor, cells, program, inbox, jump_table,
                   output, status, result, input, script, evals, taken>>

\* the branch not taken
FallThrough ==
    /\ Advance
    /\ UNCHANGED <<hand, cells, inbox, output, taken>>

eval_jump == Dispatching("Jump") /\ JumpTo(program_cursor)

ZeroTaken(h) == h = Some(0)

eval_jump_if_zero ==
    /\ Dispatching("JumpIfZero")
    /\ IF ZeroTaken(hand) THEN JumpTo(program_cursor) ELSE FallThrough

\* mutant: zero counts as negative
NegTaken_OrZero(h) == h # None /\ h[1] <= 0

NegTaken(h) == h # None /\ h[1] < 0

eval_jump_if_neg ==
    /\ Dispatching("JumpIfNeg")
    /\ IF NegTaken(hand) THEN JumpTo(program_cursor) ELSE FallThrough

\* the `_` arm of the dispatch: JumpTarget only moves the cursor
eval_jump_target ==
    /\ Dispatching("JumpTarget")
    /\ program_cursor' = program_cursor + 1
    /\ dispatched' = dispatched + 1
    /\ UNCHANGED <<hand, cells, program, inbox, jump_table, step_counter,
                   output, status, result, input, script, evals, taken>>

\* the loop condition fails: eval returns Ok(0)
eval_return ==
    /\ status = "running"
    /\ program_cursor >= Len(program)
    /\ status' = "done"
    /\ result' = Some(Ok)
    /\ UNCHANGED <<hand, program_cursor, cells, program, inbox, jump_table,
                   step_counter, output, input, script, evals, dispatched,
                   taken>>

Step ==
    \/ eval_inbox
    \/ eval_outbox
    \/ eval_copy_from
    \/ eval_copy_to
    \/ eval_add
    \/ eval_sub
    \/ eval_bump_plus
    \/ eval_bump_minus
    \/ eval_jump
    \/ eval_jump_if_zero
    \/ eval_jump_if_neg
    \/ eval_jump_target
    \/ eval_return

(* ------------------------------ inputs -------------------------------- *)

\* bytes of the input texts: '0' '1' '2' '3' '5' '-' ' '
InboxBytes == {48, 49, 50, 51, 53, 45, 32}

InboxTexts == UNION {[1..k -> InboxBytes] : k \in 0..MaxTextLen}

\* input files of the runs: none, "0 3\n" and "-2 1\n"
RunTexts == {<<48, 32, 51, 10>>, <<45, 50, 32, 49, 10>>}

Labels == {"a", "b"}

Neighbour(i) == (i + 1) % NumCells

\* Instruction sequences that bring the machine to each combination of an
\* empty or full hand, cell i and neighbouring cell before the body runs,
\* or that put a label before the body or a jump over part of it.
Prologues(i) ==
    { <<>>,
      << <<"InBox", 0>> >>,
      << <<"InBox", 0>>, <<"CopyTo", i>> >>,
      << <<"InBox", 0>>, <<"CopyTo", i>>, <<"OutBox", 0>> >>,
      << <<"InBox", 0>>, <<"CopyTo", Neighbour(i)>> >>,
      << <<"InBox", 0>>, <<"CopyTo", Neighbour(i)>>, <<"InBox", 0>>,
         <<"CopyTo", i>> >>,
      << <<"JumpTarget", "a">> >>,
      << <<"Jump", "b">> >> }

\* the instructions that address cell i or carry a label of Labels
Instructions(i) ==
    (NoArgKinds \X {0}) \cup (CellKinds \X {i}) \cup (LabelKinds \X Labels)

\* eval of a program: a prologue followed by a body of at most MaxBodyLen
\* instructions
eval_any ==
    /\ status = "new"
    /\ \E i \in 0..(NumCells - 1), k \in 0..MaxBodyLen :
          \E pro \in Prologues(i),
             ks \in [1..k -> Instructions(i)] :
                eval_init(MkProgram(pro \o ks))

(* --------------------------- specifications --------------------------- *)

NextInbox == \E bytes \in InboxTexts : set_inbox(bytes)

SpecInbox == Init /\ [][NextInbox]_vars

Next ==
    \/ \E bytes \in RunTexts : set_inbox(bytes)
    \/ eval_any
    \/ Step

Spec == Init /\ [][Next]_vars

\* the pieces scripts are written with: three opcode words, an argument,
\* a word that is no opcode, a space, a newline and a two-byte char
Pieces ==
    {OpcodeWord("InBox"), OpcodeWord("CopyFrom"), OpcodeWord("Jump"),
     <<"0">>, <<"x">>, <<" ">>, <<"\n">>, <<"U+00E9">>}

RECURSIVE Flatten(_)
Flatten(ps) == IF ps = <<>> THEN <<>> ELSE Head(ps) \o Flatten(Tail(ps))

\* main has read a script and nothing else has happened
InitLex ==
    /\ hand = None
    /\ program_cursor = 0
    /\ cells = <<>>
    /\ program = <<>>
    /\ inbox = None
    /\ jump_table = <<>>
    /\ step_counter = 0
    /\ output = <<>>
    /\ status = "start"
    /\ result = None
    /\ input = None
    /\ evals = 0
    /\ dispatched = 0
    /\ script \in {Some(Flatten(ps)) :
                      ps \in UNION {[1..k -> Pieces] : k \in 0..MaxPieces}}
    /\ taken = <<>>

NextLex == lex

SpecLex == InitLex /\ [][NextLex]_vars

\* two runs on one interpreter: the programs are a prologue over cell 0 and
\* at most MaxRerunBody instructions more
eval_first ==
    /\ status = "new"
    /\ \E pro \in Prologues(0), k \in 0..MaxRerunBody :
          \E ks \in [1..k -> Instructions(0)] : eval_init(MkProgram(pro \o ks))

eval_second ==
    /\ status = "done"
    /\ \E pro \in Prologues(0), k \in 0..MaxRerunBody :
          \E ks \in [1..k -> Instructions(0)] : eval_again(MkProgram(pro \o ks))

NextRerun ==
    \/ \E bytes \in RunTexts : set_inbox(bytes)
    \/ eval_first
    \/ eval_second
    \/ Step

SpecRerun == Init /\ [][NextRerun]_vars

\* runs of programs whose cell argument is 6, one past the last cell
eval_out_of_range ==
    /\ status = "new"
    /\ \E k \in 0..MaxBodyLen :
          \E pro \in Prologues(NumCells), ks \in [1..k -> Instructions(NumCells)] :
              eval_init(MkProgram(pro \o ks))

NextRange ==
    \/ \E bytes \in RunTexts : set_inbox(bytes)
    \/ eval_out_of_range
    \/ Step

SpecRange == Init /\ [][NextRange]_vars

\* input files "255 127\n" and "-255 127\n": the queues [255, 127] and
\* [-255, -127]
OverflowTexts ==
    {<<50, 53, 53, 32, 49, 50, 55, 10>>, <<45, 50, 53, 53, 32, 49, 50, 55, 10>>}

\* n times `copyto 0; add 0`, which doubles hand
RECURSIVE Doubling(_)
Doubling(n) ==
    IF n = 0 THEN <<>>
    ELSE <<<<"CopyTo", 0>>, <<"Add", 0>>>> \o Doubling(n - 1)

\* takes hand and cell 0 from the first input value v and the second w to
\* 128 * v + w: 32767 and -32767 for the two input files
Climb ==
    <<<<"InBox", 0>>>> \o Doubling(7)
    \o <<<<"CopyTo", 0>>, <<"InBox", 0>>, <<"Add", 0>>, <<"CopyTo", 0>>>>

\* runs of the programs that climb and go on with a tail over cell 0
eval_climb ==
    /\ status = "new"
    /\ \E k \in 0..MaxTailLen : \E ks \in [1..k -> Instructions(0)] :
          eval_init(MkProgram(Climb \o ks))

NextOverflow ==
    \/ \E bytes \in OverflowTexts : set_inbox(bytes)
    \/ eval_climb
    \/ Step

SpecOverflow == Init /\ [][NextOverflow]_vars

(* ------------------------- input text claims -------------------------- *)

\* the maximal runs of ASCII digits of a text, by the position of their
\* first byte; the k-th run from the left; a run's last byte and its value
RunStarts(bytes) ==
    {s \in 1..Len(bytes) :
        IsDigit(bytes[s]) /\ (s = 1 \/ ~IsDigit(bytes[s - 1]))}

NthRun(bytes, k) ==
    CHOOSE s \in RunStarts(bytes) :
        Cardinality({r \in RunStarts(bytes) : r <= s}) = k

RunEnd(bytes, s) ==
    CHOOSE e \in s..Len(bytes) :
        /\ \A j \in s..e : IsDigit(bytes[j])
        /\ e = Len(bytes) \/ ~IsDigit(bytes[e + 1])

RECURSIVE Decimal(_, _, _)
Decimal(bytes, s, e) ==
    IF e < s THEN 0 ELSE Decimal(bytes, s, e - 1) * 10 + (bytes[e] - 48)

RunValue(bytes, k) == Decimal(bytes, NthRun(bytes, k), RunEnd(bytes, NthRun(bytes, k)))

Abs(x) == IF x < 0 THEN -x ELSE x

\* C1: after set_inbox the queue holds one value for every maximal run of
\* digits of the text, in left-to-right order, a run that ends the text
\* included: as many values as runs, the k-th value of the k-th run.
C1_EveryRunEnqueued ==
    (input # None /\ inbox # None) =>
        /\ Len(inbox[1]) = Cardinality(RunStarts(input[1]))
        /\ \A k \in 1..Len(inbox[1]) :
              RunValue(input[1], k) <= U8Max =>
                  Abs(inbox[1][k]) = RunValue(input[1], k)

\* C2: the value enqueued for a run is negated exactly when '-' is the byte
\* just before the run: a run with another byte, or none, before it is
\* enqueued non-negative whatever came earlier in the text.
C2_NegatedIffMinusPrecedes ==
    (input # None /\ inbox # None) =>
        \A k \in 1..Len(inbox[1]) :
            LET s == NthRun(input[1], k) IN
            IF s > 1 /\ input[1][s - 1] = ByteMinus
            THEN inbox[1][k] <= 0
            ELSE inbox[1][k] >= 0

(* ------------------------- interpreter claims ------------------------- *)

\* the dispatch loop is about to execute an instruction of this kind
Executes(kinds) ==
    /\ status = "running"
    /\ program_cursor < Len(program)
    /\ Command.kind \in kinds

\* eval has just been called: it ran init and reached the loop or returned
Loaded == status = "new" /\ status' \in {"running", "done"}

\* the jump-family instructions of p whose label no JumpTarget of p carries
Dangling(p) ==
    {i \in 1..Len(p) :
        /\ p[i].kind \in {"Jump", "JumpIfZero", "JumpIfNeg"}
        /\ ~\E j \in 1..Len(p) : p[j].kind = "JumpTarget" /\ p[j].arg = p[i].arg}

\* C3: load succeeds exactly when every label a jump-family instruction
\* references is the label of a JumpTarget of the program; otherwise eval
\* returns UnexistedJumpTarget at the location of an instruction whose label
\* is missing and dispatches nothing: hand, inbox and output are untouched.
C3_LoadIffLabelsDefined ==
    [][/\ Loaded =>
            /\ (status' = "running") <=> (Dangling(program') = {})
            /\ status' = "done" =>
                  /\ result' # None
                  /\ result'[1].tag = "Err"
                  /\ result'[1].kind = "UnexistedJumpTarget"
                  /\ \E i \in Dangling(program') :
                        result'[1].location = program'[i].location
            /\ UNCHANGED <<hand, inbox, output, program_cursor, step_counter>>
       /\ status = "done" => UNCHANGED <<hand, inbox, output, cells, program_cursor>>
      ]_vars

\* a load that failed although another label of the program is defined and
\* the inbox holds values
C3_Witness ==
    /\ status = "done"
    /\ result # None
    /\ result[1].kind = "UnexistedJumpTarget"
    /\ step_counter = 0
    /\ inbox # None
    /\ inbox[1] # <<>>
    /\ \E j \in 1..Len(program) : program[j].kind = "JumpTarget"
    /\ DOMAIN jump_table # {}

\* the error the instruction at the cursor raises in the current state, ""
\* when it raises none
StepError ==
    LET c == Command
        emptyHand == hand = None
        emptyCell == cells[c.arg + 1] = None
    IN CASE c.kind = "InBox" ->
              IF inbox = None THEN "UndefinedInputBox"
              ELSE IF inbox[1] = <<>> THEN "EmptyInBox" ELSE ""
         [] c.kind \in {"OutBox", "CopyTo"} ->
              IF emptyHand THEN "EmptyHandValue" ELSE ""
         [] c.kind \in {"CopyFrom", "BumpPlus", "BumpMinus"} ->
              IF emptyCell THEN "EmptyFloorValue" ELSE ""
         [] c.kind \in {"Add", "Sub"} ->
              IF emptyCell THEN "EmptyFloorValue"
              ELSE IF emptyHand THEN "EmptyHandValue" ELSE ""
         [] c.kind = "Jump" ->
              IF program_cursor \in DOMAIN jump_table THEN ""
              ELSE "UnexistedJumpTarget"
         [] c.kind = "JumpIfZero" ->
              IF hand = Some(0) /\ program_cursor \notin DOMAIN jump_table
              THEN "UnexistedJumpTarget" ELSE ""
         [] c.kind = "JumpIfNeg" ->
              IF hand # None /\ hand[1] < 0 /\ program_cursor \notin DOMAIN jump_table
              THEN "UnexistedJumpTarget" ELSE ""
         [] OTHER -> ""

\* C4: an InBox on a configured, empty queue ends the run with success, and
\* no other error does: each of the others ends the run at once with its
\* kind and the location of the instruction that raised it, and nothing is
\* dispatched after the run has ended.
C4_OnlyEmptyInBoxIsSuccess ==
    [][/\ Executes(NoArgKinds \cup CellKinds \cup LabelKinds) =>
            IF StepError = "" THEN status' # "done"
            ELSE /\ status' = "done"
                 /\ result' = Some(IF StepError = "EmptyInBox" THEN Ok
                                   ELSE Err(StepError, Command.location))
                 /\ UNCHANGED <<hand, cells, inbox, output, program_cursor>>
       /\ status = "done" => UNCHANGED <<hand, cells, inbox, output, program_cursor>>
      ]_vars

\* a run ended with success by an InBox on the exhausted queue, after output
C4_Witness ==
    /\ status = "done"
    /\ result = Some(Ok)
    /\ program_cursor < Len(program)
    /\ Command.kind = "InBox"
    /\ inbox = Some(<<>>)
    /\ output # <<>>

\* the queue set_inbox configured from the input text
Configured == CHOOSE q \in {SetInboxResult(input[1], c) : c \in BOOLEAN} : q # None

\* C5: the k-th successful InBox step of a run puts the k-th value of the
\* configured queue into hand, whatever hand held, and removes exactly that
\* value from the front of the queue: nothing is skipped, repeated or
\* reordered.
C5_InBoxIsFifo ==
    [][(Executes({"InBox"}) /\ inbox # None /\ inbox[1] # <<>>) =>
          LET q == Configured[1]
              k == Len(taken) + 1
          IN /\ Len(taken') = k
             /\ k <= Len(q)
             /\ hand' = Some(q[k])
             /\ inbox' = Some(SubSeq(q, k + 1, Len(q)))
      ]_vars

\* the second InBox of a run put a value other than the first into a full hand
C5_Witness ==
    /\ Len(taken) = 2
    /\ taken[1] # taken[2]
    /\ hand = Some(taken[2])
    /\ inbox = Some(<<>>)

\* the step raised this error and the run ended with it
Failed(kind) ==
    /\ status' = "done"
    /\ result' = Some(Err(kind, Command.location))

\* C6: OutBox with an empty hand fails with EmptyHandValue and emits
\* nothing; with hand = V it appends exactly V to the output, leaves hand
\* empty, every cell and the inbox unchanged, and moves the cursor on by 1.
C6_OutBox ==
    [][Executes({"OutBox"}) =>
          IF hand = None
          THEN Failed("EmptyHandValue") /\ output' = output
          ELSE /\ output' = Append(output, hand[1])
               /\ hand' = None
               /\ cells' = cells
               /\ inbox' = inbox
               /\ program_cursor' = program_cursor + 1
      ]_vars

\* an OutBox has printed the value that a cell still holds, values queued
C6_Witness ==
    /\ status = "running"
    /\ Len(output) = 1
    /\ hand = None
    /\ \E i \in 1..NumCells : cells[i] = Some(output[1])
    /\ inbox # None
    /\ inbox[1] # <<>>

\* C7: CopyTo(i) with an empty hand fails with EmptyHandValue and leaves
\* the cells unchanged; with hand = V it sets cell i to V and leaves hand =
\* V.  A cell changes only by a CopyTo or a bump of that cell, and CopyFrom(i)
\* on a full cell sets hand to the cell's value and leaves the cell as it is:
\* so a CopyFrom(i) after CopyTo(i), no write to cell i between, returns V.
C7_CopyToCopyFrom ==
    [][/\ Executes({"CopyTo"}) =>
            IF hand = None
            THEN Failed("EmptyHandValue") /\ cells' = cells
            ELSE /\ cells' = [cells EXCEPT ![Command.arg + 1] = hand]
                 /\ hand' = hand
       /\ (Executes({"CopyFrom"}) /\ cells[Command.arg + 1] # None) =>
            /\ hand' = cells[Command.arg + 1]
            /\ cells' = cells
       /\ status = "running" =>
            \A i \in 1..NumCells :
                cells'[i] # cells[i] =>
                    /\ Executes({"CopyTo", "BumpPlus", "BumpMinus"})
                    /\ Command.arg = i - 1
      ]_vars

\* the program has no jump, so the instruction before the cursor ran last
StraightLine == \A j \in 1..Len(program) : program[j].kind \notin LabelKinds

\* a CopyFrom(i) has filled the hand an OutBox had emptied after CopyTo(i)
C7_Witness ==
    /\ StraightLine
    /\ program_cursor > 0
    /\ program[program_cursor].kind = "CopyFrom"
    /\ output # <<>>
    /\ hand = Some(output[1])
    /\ cells[program[program_cursor].arg + 1] = hand
    /\ \E j \in 1..Len(program) :
          program[j].kind = "CopyTo" /\ program[j].arg = program[program_cursor].arg

\* C8: Add(i) and Sub(i) fail with EmptyFloorValue whenever cell i is
\* empty, the hand empty or not, and with EmptyHandValue when cell i is full
\* and the hand empty, hand, cells and cursor unchanged in both cases; with
\* both full, hand becomes hand + cell i (Add) or hand - cell i (Sub) and
\* cell i is unchanged.
C8_AddSub ==
    [][Executes({"Add", "Sub"}) =>
          LET floor == cells[Command.arg + 1] IN
          IF floor = None
          THEN Failed("EmptyFloorValue") /\ UNCHANGED <<hand, cells, program_cursor>>
          ELSE IF hand = None
          THEN Failed("EmptyHandValue") /\ UNCHANGED <<hand, cells, program_cursor>>
          ELSE /\ hand' = Some(IF Command.kind = "Add" THEN hand[1] + floor[1]
                               ELSE hand[1] - floor[1])
               /\ cells' = cells
      ]_vars

\* an Add or Sub on an empty cell failed with EmptyFloorValue though the
\* hand was empty too and another cell was full
C8_Witness ==
    /\ status = "done"
    /\ result # None
    /\ result[1].kind = "EmptyFloorValue"
    /\ Command.kind \in {"Add", "Sub"}
    /\ hand = None
    /\ \E i \in 1..NumCells : cells[i] # None

\* C9: BumpPlus(i) and BumpMinus(i) fail with EmptyFloorValue when cell i is
\* empty, hand and cells unchanged; when cell i holds v the step sets cell i
\* to exactly v + 1 (BumpPlus) or v - 1 (BumpMinus), sets hand to that new
\* value whatever hand held, and changes no other cell.
C9_Bump ==
    [][Executes({"BumpPlus", "BumpMinus"}) =>
          LET floor == cells[Command.arg + 1] IN
          IF floor = None
          THEN Failed("EmptyFloorValue") /\ UNCHANGED <<hand, cells>>
          ELSE LET v == IF Command.kind = "BumpPlus" THEN floor[1] + 1
                        ELSE floor[1] - 1
               IN /\ cells' = [cells EXCEPT ![Command.arg + 1] = Some(v)]
                  /\ hand' = Some(v)
      ]_vars

\* a BumpPlus has filled the emptied hand with the bumped value of its cell
\* while another cell was full
C9_Witness ==
    /\ StraightLine
    /\ program_cursor > 0
    /\ program[program_cursor].kind = "BumpPlus"
    /\ output # <<>>
    /\ hand = Some(output[1] + 1)
    /\ cells[program[program_cursor].arg + 1] = hand
    /\ Cardinality({i \in 1..NumCells : cells[i] # None}) = 2

\* the 0-based index of the last JumpTarget that carries the label of the
\* instruction at the cursor
LastTarget ==
    CHOOSE t \in 0..(Len(program) - 1) :
        /\ program[t + 1].kind = "JumpTarget"
        /\ program[t + 1].arg = Command.arg
        /\ \A u \in (t + 1)..(Len(program) - 1) :
              ~(program[u + 1].kind = "JumpTarget" /\ program[u + 1].arg = Command.arg)

\* C10: JumpIfZero at index p sets the cursor to the resolved target of p
\* exactly when hand holds 0 and to p + 1 otherwise; JumpIfNeg sets it to the
\* target exactly when hand holds a value < 0 and to p + 1 otherwise (hand
\* empty or >= 0); Jump always sets it to the target; none of the three
\* changes hand, cells or inbox.
C10_Jumps ==
    [][/\ Executes({"Jump"}) => program_cursor' = LastTarget
       /\ Executes({"JumpIfZero"}) =>
            program_cursor' = IF hand = Some(0) THEN LastTarget
                              ELSE program_cursor + 1
       /\ Executes({"JumpIfNeg"}) =>
            program_cursor' = IF hand # None /\ hand[1] < 0 THEN LastTarget
                              ELSE program_cursor + 1
       /\ Executes(JumpKinds) => UNCHANGED <<hand, cells, inbox>>
      ]_vars

\* a JumpIfNeg with a negative value in hand has taken the cursor back to
\* the start of the program
C10_Witness ==
    /\ status = "running"
    /\ program_cursor = 0
    /\ step_counter = 2
    /\ hand # None
    /\ hand[1] < 0
    /\ Len(program) = 3
    /\ program[3].kind = "JumpIfNeg"

(* ---------------------------- lexer claims ---------------------------- *)

\* the whitespace-delimited words of a text, by the position of their first
\* char; a word's last char, its chars, and the words from left to right
WordStarts(text) ==
    {k \in 1..Len(text) :
        ~IsAsciiWhitespace(text[k]) /\ (k = 1 \/ IsAsciiWhitespace(text[k - 1]))}

WordEnd(text, k) ==
    CHOOSE e \in k..Len(text) :
        /\ \A j \in k..e : ~IsAsciiWhitespace(text[j])
        /\ e = Len(text) \/ IsAsciiWhitespace(text[e + 1])

Word(text, k) == SubSeq(text, k, WordEnd(text, k))

NthWordStart(text, n) ==
    CHOOSE k \in WordStarts(text) :
        Cardinality({j \in WordStarts(text) : j <= k}) = n

Words(text) ==
    [n \in 1..Cardinality(WordStarts(text)) |-> Word(text, NthWordStart(text, n))]

\* 1-based line and column of the k-th char of a text
LineOf(text, k) == 1 + Cardinality({j \in 1..(k - 1) : text[j] = "\n"})

ColOf(text, k) ==
    Cardinality({j \in 1..k : \A n \in j..(k - 1) : text[n] # "\n"})

Ascii(text) == \A k \in 1..Len(text) : Width(text[k]) = 1

\* lex has returned a Program for an ASCII script
Lexed == script # None /\ status = "new" /\ Ascii(script[1])

\* C11: Lexer::lex is total: whatever the text (empty, whitespace only,
\* ending in an opcode that wants an argument, holding chars of more than
\* one byte), it returns a Program and never fails.
C11_LexIsTotal == script # None => status \in {"start", "new"}

\* C12: a word that is no opcode consumes only itself, the word after it is
\* scanned as a possible opcode.  So a script written with words that are
\* inbox, outbox or no opcode at all gives one instruction for every inbox
\* and outbox word, in order; "x inbox" gives exactly [InBox].
C12_UnrecognizedConsumesItself ==
    (Lexed /\ \A n \in 1..Len(Words(script[1])) :
                 KindOf(Words(script[1])[n]) = None
                 \/ KindOf(Words(script[1])[n])[1] \in NoArgKinds) =>
        LET opcodes == SelectSeq(Words(script[1]), LAMBDA w : KindOf(w) # None) IN
        /\ Len(program) = Len(opcodes)
        /\ \A n \in 1..Len(opcodes) : program[n].kind = KindOf(opcodes[n])[1]

\* the words of a script scanned as the rule of C13 has it, from the n-th
\* word on: an opcode whose argument parses takes the next word with it,
\* any other word goes alone
ArgOf(kind, words, n) ==
    IF n + 1 > Len(words) THEN None
    ELSE IF kind \in CellKinds THEN ParseUsize(words[n + 1])
    ELSE Some(words[n + 1])

RECURSIVE Expected(_, _)
Expected(words, n) ==
    IF n > Len(words) THEN <<>>
    ELSE LET kind == KindOf(words[n]) IN
         IF kind = None THEN Expected(words, n + 1)
         ELSE IF kind[1] \in NoArgKinds
         THEN <<<<kind[1], 0>>>> \o Expected(words, n + 1)
         ELSE IF ArgOf(kind[1], words, n) = None THEN Expected(words, n + 1)
         ELSE <<<<kind[1], ArgOf(kind[1], words, n)[1]>>>> \o Expected(words, n + 2)

\* that scan meets a word that is no opcode
RECURSIVE Stray(_, _)
Stray(words, n) ==
    IF n > Len(words) THEN FALSE
    ELSE LET kind == KindOf(words[n]) IN
         IF kind = None THEN TRUE
         ELSE IF kind[1] \in NoArgKinds \/ ArgOf(kind[1], words, n) = None
         THEN Stray(words, n + 1)
         ELSE Stray(words, n + 2)

\* the values of i at which the scan loop of lex inspects a chunk
RECURSIVE ScanPositions(_, _)
ScanPositions(chunks, i) ==
    IF i >= Len(chunks) THEN {}
    ELSE {i} \cup ScanPositions(chunks, ScanStep(chunks, i).i)

\* C13: an opcode that wants an argument and is followed by a word that
\* does not parse as one, or by nothing, emits no instruction and consumes
\* only itself, the next word being scanned as a possible opcode; when the
\* argument parses both words are consumed and one instruction is emitted.
\* This holds of every turn of the scan loop that inspects such an opcode,
\* and a script in which the scan of this rule meets opcode words only is
\* lexed to exactly the instructions of that scan.
C13_ArgumentOrOpcodeAlone ==
    /\ (script # None /\ status = "new") =>
          LET chunks == Chunks(script[1])[1] IN
          \A i \in ScanPositions(chunks, 0) :
              LET kind == KindOf(chunks[i + 1].value)
                  step == ScanStep(chunks, i)
              IN (kind # None /\ kind[1] \notin NoArgKinds) =>
                    IF /\ i + 1 < Len(chunks)
                       /\ kind[1] \in CellKinds =>
                              ParseUsize(chunks[i + 2].value) # None
                    THEN /\ step.command # None
                         /\ step.command[1].kind = kind[1]
                         /\ step.i = i + 2
                    ELSE /\ step.command = None
                         /\ step.i = i + 1
                         /\ i + 1 < Len(chunks) => i + 1 \in ScanPositions(chunks, 0)
    /\ (Lexed /\ ~Stray(Words(script[1]), 1)) =>
          LET expected == Expected(Words(script[1]), 1) IN
          /\ Len(program) = Len(expected)
          /\ \A n \in 1..Len(expected) :
                <<program[n].kind, program[n].arg>> = expected[n]

\* "copyfrom inbox" is lexed to [InBox], "copyfrom 0" to [CopyFrom(0)]
C13_Witness ==
    /\ Lexed
    /\ Words(script[1]) = <<OpcodeWord("CopyFrom"), OpcodeWord("InBox")>>
    /\ Len(program) = 1
    /\ program[1].kind = "InBox"

\* C14: for an ASCII script, whatever its spaces, repeated whitespace and
\* newlines, every instruction carries the 1-based line and column of the
\* first char of its argument word when its opcode takes an argument, and
\* of its opcode word otherwise.
C14_LocationOfFirstChar ==
    Lexed =>
        \A n \in 1..Len(program) :
            \E k \in WordStarts(script[1]) :
                /\ program[n].location =
                       Location(LineOf(script[1], k), ColOf(script[1], k))
                /\ IF program[n].kind \in NoArgKinds
                   THEN Word(script[1], k) = OpcodeWord(program[n].kind)
                   ELSE /\ \E j \in WordStarts(script[1]) :
                             /\ j < k
                             /\ \A m \in WordStarts(script[1]) : m <= j \/ m >= k
                             /\ Word(script[1], j) = OpcodeWord(program[n].kind)
                        /\ IF program[n].kind \in CellKinds
                           THEN ParseUsize(Word(script[1], k)) = Some(program[n].arg)
                           ELSE Word(script[1], k) = program[n].arg

\* "copyfrom 0\n" is lexed to CopyFrom(0) at line 1, column 10
C14_Witness ==
    /\ status = "new"
    /\ script = Some(OpcodeWord("CopyFrom") \o <<" ", "0", "\n">>)
    /\ program = <<[kind |-> "CopyFrom", arg |-> 0, location |-> Location(1, 10)]>>

(* ------------------------- run lifecycle claims ----------------------- *)

\* C15: every call of eval, a second call on the same interpreter after a
\* first run has returned included, starts dispatch at cursor 0 with an
\* empty hand, six empty cells and a jump table built from the program of
\* that call alone.
C15_EvalStartsFresh ==
    [][(status # "running" /\ status' = "running") =>
          /\ program_cursor' = 0
          /\ hand' = None
          /\ cells' = EmptyCells
          /\ DOMAIN jump_table' = JumpIndices(program')
          /\ \A i \in JumpIndices(program') :
                jump_table'[i] = TargetOf(program', program'[i + 1].arg)]_vars

\* C19: from the first instruction the dispatch loop executes and for the
\* rest of that run, the domain of the jump table is exactly the set of
\* indices of the Jump, JumpIfZero and JumpIfNeg instructions of the
\* program, each entry is the index of a JumpTarget with the same label,
\* the last one when the label is repeated, and dispatch leaves the table
\* as it is.
C19_JumpTableExact ==
    [][(status = "running" /\ program_cursor < Len(program)) =>
          /\ DOMAIN jump_table = JumpIndices(program)
          /\ \A i \in DOMAIN jump_table :
                /\ jump_table[i] \in 0..(Len(program) - 1)
                /\ program[jump_table[i] + 1].kind = "JumpTarget"
                /\ program[jump_table[i] + 1].arg = program[i + 1].arg
                /\ \A j \in (jump_table[i] + 1)..(Len(program) - 1) :
                      ~(/\ program[j + 1].kind = "JumpTarget"
                        /\ program[j + 1].arg = program[i + 1].arg)
          /\ jump_table' = jump_table]_vars

\* C20: in every state of a run the cursor lies in [0, program.length]; a
\* successful step that is no jump, and a conditional jump not taken, add
\* exactly 1 to it; a taken jump sets it to an index below program.length
\* that holds a JumpTarget; a failing step leaves it as it is; and the run
\* halts with success exactly when the cursor equals program.length.
C20_CursorInRange ==
    [][status = "running" =>
          /\ 0 <= program_cursor /\ program_cursor <= Len(program)
          /\ (status' = "running" /\ program_cursor' # program_cursor) =>
                IF \/ Command.kind = "Jump"
                   \/ Command.kind = "JumpIfZero" /\ ZeroTaken(hand)
                   \/ Command.kind = "JumpIfNeg" /\ NegTaken(hand)
                THEN /\ program_cursor' < Len(program)
                     /\ program[program_cursor' + 1].kind = "JumpTarget"
                ELSE program_cursor' = program_cursor + 1
          /\ status' = "running" =>
                \/ program_cursor' # program_cursor
                \/ UNCHANGED vars
                \/ Command.kind \in JumpKinds
          /\ status' # "running" => program_cursor' = program_cursor
          /\ (status' = "done" /\ result' = Some(Ok)) <=>
                (program_cursor = Len(program) /\ ~UNCHANGED vars)]_vars

(* --------------------- range and overflow claims --------------------- *)

\* C16: CopyFrom, CopyTo, Add, Sub, BumpPlus or BumpMinus on a cell index
\* of 6 or more ends the run with a typed error that carries the location
\* of the instruction and that eval returns; no step makes eval fail
\* outside its error result.
C16_OutOfRangeIsTypedError ==
    [][/\ (Executes(CellKinds) /\ Command.arg >= NumCells) =>
              /\ status' = "done"
              /\ result' # None
              /\ result'[1].tag = "Err"
              /\ result'[1].location = Command.location
       /\ status = "running" => status' # "panic"]_vars

\* the mathematical result of the arithmetic step about to execute
MathResult ==
    CASE Command.kind = "Add" -> hand[1] + Cell(Command.arg)[1]
      [] Command.kind = "Sub" -> hand[1] - Cell(Command.arg)[1]
      [] Command.kind = "BumpPlus" -> Cell(Command.arg)[1] + 1
      [] Command.kind = "BumpMinus" -> Cell(Command.arg)[1] - 1

\* an arithmetic step is about to execute on operands that are present and
\* its mathematical result is outside the i16 range
Overflows ==
    /\ Executes({"Add", "Sub", "BumpPlus", "BumpMinus"})
    /\ InRange(Command.arg)
    /\ Cell(Command.arg) # None
    /\ Command.kind \in {"Add", "Sub"} => hand # None
    /\ MathResult < I16Min \/ MathResult > I16Max

\* C17: when the mathematical result of Add, Sub, BumpPlus or BumpMinus is
\* outside [-32768, 32767] the step still succeeds: hand, and the cell for
\* the bumps, holds an in-range value, the cursor moves on by 1 and the run
\* goes on.
C17_OverflowWrapsOrSaturates ==
    [][Overflows =>
          /\ status' = "running"
          /\ hand' # None
          /\ hand'[1] \in I16Min..I16Max
          /\ Command.kind \in {"BumpPlus", "BumpMinus"} =>
                cells'[Command.arg + 1] = hand'
          /\ program_cursor' = program_cursor + 1]_vars

\* C18: for every run of digits whose decimal value fits the 16-bit signed
\* width of hand and cells (0..32767), set_inbox enqueues exactly that
\* value: the run "300" followed by a separator enqueues 300.
C18_RunValueEnqueued ==
    input # None =>
        /\ (\A s \in RunStarts(input[1]) :
               Decimal(input[1], s, RunEnd(input[1], s)) <= I16Max) =>
              status # "panic"
        /\ inbox # None =>
              \A k \in 1..Len(inbox[1]) :
                  RunValue(input[1], k) <= I16Max =>
                      Abs(inbox[1][k]) = RunValue(input[1], k)

(* -------------------- load order and termination --------------------- *)

\* C21: the result of load is a function of the program alone: when two or
\* more jump-family instructions reference labels that no JumpTarget
\* carries, every run of eval on the program reports UnexistedJumpTarget at
\* the location of the unresolved jump instruction of lowest index.
C21_LoadReportsLowestUnresolved ==
    [][(Loaded /\ Cardinality(Dangling(program')) >= 2) =>
          LET first == CHOOSE i \in Dangling(program') :
                           \A j \in Dangling(program') : i <= j
          IN result' = Some(Err("UnexistedJumpTarget", program'[first].location))]_vars

\* every jump-family instruction of the loaded program is resolved to a
\* target at a higher index than its own
Forward ==
    \A i \in JumpIndices(program) :
        i \in DOMAIN jump_table /\ jump_table[i] > i

\* the step about to execute is a jump that is taken to a lower index
JumpsBack ==
    /\ \/ Command.kind = "Jump"
       \/ Command.kind = "JumpIfZero" /\ ZeroTaken(hand)
       \/ Command.kind = "JumpIfNeg" /\ NegTaken(hand)
    /\ program_cursor \in DOMAIN jump_table
    /\ jump_table[program_cursor] < program_cursor

\* the program [JumpTarget a, Jump a]
LoopProgram == MkProgram(<<<<"JumpTarget", "a">>, <<"Jump", "a">>>>)

\* C22: a run of a program whose jumps all resolve to a higher index than
\* their own takes at most program.length dispatch steps, each of which
\* ends the run or moves the cursor forward, and with no instruction left
\* the run returns; in any program a step that neither ends the run nor
\* moves the cursor forward is a taken jump to a lower index; and the run
\* of [JumpTarget a, Jump a] never ends.
C22_ForwardJumpsTerminate ==
    [][status = "running" =>
          /\ Forward =>
                /\ dispatched <= Len(program)
                /\ dispatched' <= Len(program)
                /\ status' = "running" => program_cursor' > program_cursor
                /\ ENABLED (Step \/ eval_return)
          /\ (status' = "running" /\ program_cursor' <= program_cursor) =>
                JumpsBack
          /\ program = LoopProgram => status' = "running"]_vars

\* a run has taken a forward jump over an instruction and has ended with
\* success at the end of the program, in fewer steps than instructions
C22_Witness ==
    /\ status = "done"
    /\ result = Some(Ok)
    /\ JumpIndices(program) # {}
    /\ Forward
    /\ dispatched > 0
    /\ dispatched < Len(program)
    /\ program_cursor = Len(program)

====
